---- MODULE Spec2Model ----
(***************************************************************************)
(* Validated record declarations of Tarea1-Programacion-Software:          *)
(*   src/ejemplo_pydantic.py                     Usuario, Producto,        *)
(*                                               ItemOrden, Orden,         *)
(*                                               ConfiguracionApp          *)
(*   src/03-Introduccion-ORM/entities/usuario.py Usuario (ORM entity),     *)
(*                                               UsuarioBase/Create/Update *)
(*                                                                         *)
(* Representation.                                                         *)
(*   str       a sequence of characters. A character is a one-character    *)
(*             string, or its Python escape ("\\x0b", "\\u2003") when it  *)
(*             has no TLA+ literal. The alphabet is ASCII and the          *)
(*             whitespace characters of Unicode.                           *)
(*   Optional  <<>> for None / not given, <<x>> for the value x            *)
(*   int       an integer                                                  *)
(*   float     a finite IEEE-754 double, [signo, mantisa, exponente]: the  *)
(*             value signo * mantisa * 2^exponente, the mantisa a natural  *)
(*             number of exactly 53 bits (see "natural numbers, any size") *)
(*             and 0.0 the record Cero. Arithmetic is the exact result     *)
(*             rounded to nearest, ties to even; infinities, NaN, the sign *)
(*             of zero and subnormal numbers are not represented.          *)
(*   datetime  [s |-> seconds, us |-> microseconds]                        *)
(***************************************************************************)
EXTENDS Integers, Sequences, FiniteSets

\* ------------------------------------------------------------------ bounds
MaxNombre == 3
MaxTelefono == 3
MaxItems == 2
MaxAsignaciones == 1
MaxPrecio == 96

\* ------------------------------------------------- Python str operations
Minusculas ==
  <<"a","b","c","d","e","f","g","h","i","j","k","l","m",
    "n","o","p","q","r","s","t","u","v","w","x","y","z">>

Mayusculas ==
  <<"A","B","C","D","E","F","G","H","I","J","K","L","M",
    "N","O","P","Q","R","S","T","U","V","W","X","Y","Z">>

Digitos == {"0","1","2","3","4","5","6","7","8","9"}

EsMinuscula(c) == \E i \in 1..Len(Minusculas) : Minusculas[i] = c

EsMayuscula(c) == \E i \in 1..Len(Mayusculas) : Mayusculas[i] = c

EsLetra(c) == EsMinuscula(c) \/ EsMayuscula(c)

\* the characters str.isspace() holds of, which str.strip() removes
Espacios ==
  {" ", "\t", "\n", "\r", "\f", "\\x0b", "\\x1c", "\\x1d", "\\x1e", "\\x1f",
   "\\x85", "\\xa0", "\\u1680", "\\u2000", "\\u2001", "\\u2002", "\\u2003",
   "\\u2004", "\\u2005", "\\u2006", "\\u2007", "\\u2008", "\\u2009", "\\u200a",
   "\\u2028", "\\u2029", "\\u202f", "\\u205f", "\\u3000"}

EsEspacio(c) == c \in Espacios

Indice(tabla, c) == CHOOSE i \in 1..Len(tabla) : tabla[i] = c

lower_char(c) == IF EsMayuscula(c) THEN Minusculas[Indice(Mayusculas, c)] ELSE c

upper_char(c) == IF EsMinuscula(c) THEN Mayusculas[Indice(Minusculas, c)] ELSE c

\* str.lower()
lower(s) == [i \in 1..Len(s) |-> lower_char(s[i])]

\* str.title(): a letter that follows a letter is lowercased, any other
\* letter is uppercased, non-letters are kept.
title(s) ==
  [i \in 1..Len(s) |->
     IF ~EsLetra(s[i]) THEN s[i]
     ELSE IF i > 1 /\ EsLetra(s[i-1]) THEN lower_char(s[i])
     ELSE upper_char(s[i])]

RECURSIVE lstrip(_)
lstrip(s) == IF Len(s) > 0 /\ EsEspacio(Head(s)) THEN lstrip(Tail(s)) ELSE s

RECURSIVE rstrip(_)
rstrip(s) ==
  IF Len(s) > 0 /\ EsEspacio(s[Len(s)]) THEN rstrip(SubSeq(s, 1, Len(s) - 1)) ELSE s

\* str.strip()
strip(s) == rstrip(lstrip(s))

\* str.replace(c, '') for a single character c
replace(s, c) == SelectSeq(s, LAMBDA x : x # c)

\* str.isdigit(): non-empty and only digits
isdigit(s) == Len(s) > 0 /\ \A i \in 1..Len(s) : s[i] \in Digitos

\* ------------------------------------------------------ validator results
\* A validator either returns the (normalised) value or raises ValueError.
Ok(v) == [ok |-> TRUE, v |-> v]

Raise == [ok |-> FALSE, v |-> <<>>]

None == <<>>

Some(x) == <<x>>

Ninguno == [ninguno |-> TRUE]

\* The library's answer for one model: every failing field is reported, and
\* the record exists only when no field failed.
Resultado(errores, campos) ==
  IF errores = {} THEN [errores |-> {}, registro |-> campos, excepcion |-> ""]
  ELSE [errores |-> errores, registro |-> Ninguno, excepcion |-> "ValidationError"]

Falla(campo, r) == IF r.ok THEN {} ELSE {campo}

\* A value given for an Optional field, or its default when not given.
Dado(opt, defecto) == IF Len(opt) = 0 THEN defecto ELSE opt[1]

\* ------------------------------------------- ejemplo_pydantic.py: Usuario
\* mutant: the stripped name returned without title()
Usuario_validar_nombre_sin_title(v) ==
  IF Len(strip(v)) < 2 THEN Raise ELSE Ok(strip(v))

Usuario_validar_nombre(v) ==
  IF Len(strip(v)) < 2 THEN Raise ELSE Ok(title(strip(v)))

Usuario_validar_edad(v) ==
  IF Len(v) > 0 /\ (v[1] < 0 \/ v[1] > 120) THEN Raise ELSE Ok(v)

Usuario(kw) ==
  LET n == Usuario_validar_nombre(kw.nombre)
      e == Usuario_validar_edad(kw.edad)
  IN Resultado(Falla("nombre", n) \cup Falla("edad", e),
               [id |-> kw.id, nombre |-> n.v, email |-> kw.email,
                edad |-> e.v, activo |-> Dado(kw.activo, TRUE)])

\* ------------------------------------ entities/usuario.py: pydantic schemas
\* The names the import statements of the file bind (lines 5-8).
usuario_py_imports ==
  {"Base", "Boolean", "Column", "DateTime", "Integer", "String",
   "relationship", "func"}

\* The names a class statement of the file reads when it is executed.
UsuarioBase_nombres == {"BaseModel", "Field", "EmailStr", "validator", "Optional"}

UsuarioUpdate_nombres == {"BaseModel", "Field", "EmailStr", "validator", "Optional"}

\* A class of the file exists once the file has run up to the end of its
\* class statement: every name read by then has to be bound.
Definida(nombres) == nombres \subseteq usuario_py_imports

\* A name that is not bound: NameError, and nothing is built.
NameError == [errores |-> {}, registro |-> Ninguno, excepcion |-> "NameError"]

\* Field(min_length=.., max_length=..): checked on the raw input, before the
\* @validator of the field runs.
Longitud(v, minimo, maximo) == Len(v) >= minimo /\ Len(v) <= maximo

NombreMin == 2

NombreMax == 100

TelefonoMax == 20

\* EmailStr: one "@" with a non-empty local part and a dotted domain.
EmailStr(v) ==
  IF \E i \in 2..Len(v) - 1 :
       /\ v[i] = "@"
       /\ \A j \in 1..Len(v) : v[j] = "@" => j = i
       /\ \E j \in i + 2..Len(v) - 1 : v[j] = "."
  THEN Ok(v) ELSE Raise

UsuarioBase_validar_nombre(v) ==
  IF Len(strip(v)) = 0 THEN Raise ELSE Ok(title(strip(v)))

\* v is the Optional phone; a given value is stripped, then checked.
UsuarioBase_validar_telefono(v) ==
  IF Len(v) = 0 THEN Ok(v)
  ELSE LET w == strip(v[1])
       IN IF Len(w) > 0 /\
             ~isdigit(replace(replace(replace(replace(replace(w, "+"), "-"),
                                              " "), "("), ")"))
          THEN Raise ELSE Ok(Some(w))

\* UsuarioCreate inherits every field and validator of UsuarioBase.
UsuarioBase(kw) ==
  LET n == IF Longitud(kw.nombre, NombreMin, NombreMax)
           THEN UsuarioBase_validar_nombre(kw.nombre) ELSE Raise
      e == EmailStr(kw.email)
      t == IF Len(kw.telefono) = 0 \/ Longitud(kw.telefono[1], 0, TelefonoMax)
           THEN UsuarioBase_validar_telefono(kw.telefono) ELSE Raise
  IN IF ~Definida(UsuarioBase_nombres) THEN NameError
     ELSE Resultado(
            Falla("nombre", n) \cup Falla("email", e) \cup Falla("telefono", t),
            [nombre |-> n.v, email |-> e.v, telefono |-> t.v,
             activo |-> Dado(kw.activo, TRUE)])

UsuarioUpdate_validar_nombre(v) ==
  IF Len(v) > 0 /\ Len(strip(v[1])) = 0 THEN Raise
  ELSE IF Len(v) > 0 /\ Len(v[1]) > 0 THEN Ok(Some(title(strip(v[1]))))
  ELSE Ok(v)

UsuarioUpdate_validar_telefono(v) ==
  IF Len(v) = 0 THEN Ok(v)
  ELSE LET w == strip(v[1])
       IN IF Len(w) > 0 /\
             ~isdigit(replace(replace(replace(replace(replace(w, "+"), "-"),
                                              " "), "("), ")"))
          THEN Raise ELSE Ok(Some(w))

UsuarioUpdate(kw) ==
  LET n == IF Len(kw.nombre) = 0 \/ Longitud(kw.nombre[1], NombreMin, NombreMax)
           THEN UsuarioUpdate_validar_nombre(kw.nombre) ELSE Raise
      e == IF Len(kw.email) = 0 THEN Ok(None)
           ELSE IF EmailStr(kw.email[1]).ok THEN Ok(kw.email) ELSE Raise
      t == IF Len(kw.telefono) = 0 \/ Longitud(kw.telefono[1], 0, TelefonoMax)
           THEN UsuarioUpdate_validar_telefono(kw.telefono) ELSE Raise
  IN IF ~Definida(UsuarioBase_nombres \cup UsuarioUpdate_nombres) THEN NameError
     ELSE Resultado(
            Falla("nombre", n) \cup Falla("email", e) \cup Falla("telefono", t),
            [nombre |-> n.v, email |-> e.v, telefono |-> t.v,
             activo |-> kw.activo])

\* ------------------------------------------------ natural numbers, any size
\* A natural number of any size is the sequence of its digits in base 2^15,
\* the least significant first and the last one not 0; 0 is <<>>.
BitsCifra == 15

Base == 2^BitsCifra

RECURSIVE NDe(_)
NDe(n) == IF n = 0 THEN <<>> ELSE <<n % Base>> \o NDe(n \div Base)

RECURSIVE NEntero(_)
NEntero(a) == IF Len(a) = 0 THEN 0 ELSE a[1] + Base * NEntero(Tail(a))

\* the digits without the zeros at the significant end
NNorm(a) ==
  LET usados == {i \in 1..Len(a) : a[i] # 0}
  IN IF usados = {} THEN <<>>
     ELSE SubSeq(a, 1, CHOOSE i \in usados : \A j \in usados : j <= i)

Cifra(a, i) == IF i >= 1 /\ i <= Len(a) THEN a[i] ELSE 0

\* a + b: a carry enters digit i when a lower digit overflows and every
\* digit between passes the carry on
NSuma(a, b) ==
  LET n == (IF Len(a) > Len(b) THEN Len(a) ELSE Len(b)) + 1
      acarreo(i) ==
        IF \E j \in 1..i - 1 :
             /\ Cifra(a, j) + Cifra(b, j) >= Base
             /\ \A k \in j + 1..i - 1 : Cifra(a, k) + Cifra(b, k) = Base - 1
        THEN 1 ELSE 0
  IN NNorm([i \in 1..n |-> (Cifra(a, i) + Cifra(b, i) + acarreo(i)) % Base])

\* a - b, for a >= b
NResta(a, b) ==
  LET prestamo(i) ==
        IF \E j \in 1..i - 1 :
             /\ Cifra(a, j) < Cifra(b, j)
             /\ \A k \in j + 1..i - 1 : Cifra(a, k) = Cifra(b, k)
        THEN 1 ELSE 0
  IN NNorm([i \in 1..Len(a) |-> (Cifra(a, i) - Cifra(b, i) - prestamo(i)) % Base])

\* a < b
NMenor(a, b) ==
  \/ Len(a) < Len(b)
  \/ /\ Len(a) = Len(b)
     /\ \E i \in 1..Len(a) :
          /\ a[i] < b[i]
          /\ \A j \in i + 1..Len(a) : a[j] = b[j]

\* a * c for one digit c
RECURSIVE NMulCifraDesde(_, _, _, _)
NMulCifraDesde(a, c, i, acarreo) ==
  IF i > Len(a) THEN (IF acarreo = 0 THEN <<>> ELSE <<acarreo>>)
  ELSE LET t == a[i] * c + acarreo
       IN <<t % Base>> \o NMulCifraDesde(a, c, i + 1, t \div Base)

NMulCifra(a, c) == NNorm(NMulCifraDesde(a, c, 1, 0))

\* a * Base^k
NCifrasIzq(a, k) == IF Len(a) = 0 THEN a ELSE [i \in 1..k |-> 0] \o a

RECURSIVE NMulDesde(_, _, _)
NMulDesde(a, b, i) ==
  IF i > Len(b) THEN <<>>
  ELSE NSuma(NCifrasIzq(NMulCifra(a, b[i]), i - 1), NMulDesde(a, b, i + 1))

\* a * b
NMul(a, b) == NMulDesde(a, b, 1)

\* the remainder by one digit d > 0 of the number made of the digits i.. of a
RECURSIVE NRestoDesde(_, _, _)
NRestoDesde(a, d, i) ==
  IF i > Len(a) THEN 0 ELSE (NRestoDesde(a, d, i + 1) * Base + a[i]) % d

\* quotient and remainder of a by one digit d > 0
NDivCifra(a, d) ==
  [q |-> NNorm([i \in 1..Len(a) |-> (NRestoDesde(a, d, i + 1) * Base + a[i]) \div d]),
   r |-> NRestoDesde(a, d, 1)]

\* the number of bits of a
NBits(a) ==
  IF Len(a) = 0 THEN 0
  ELSE BitsCifra * (Len(a) - 1)
         + CHOOSE k \in 1..BitsCifra : 2^(k - 1) <= a[Len(a)] /\ a[Len(a)] < 2^k

\* bit i of a, the least significant being bit 1
NBit(a, i) ==
  (Cifra(a, (i - 1) \div BitsCifra + 1) \div 2^((i - 1) % BitsCifra)) % 2

\* a * 2^k
NIzq(a, k) == NMulCifra(NCifrasIzq(a, k \div BitsCifra), 2^(k % BitsCifra))

\* a \div 2^k
NDer(a, k) ==
  NDivCifra(SubSeq(a, k \div BitsCifra + 1, Len(a)), 2^(k % BitsCifra)).q

\* the natural number nearest to a / 2^k, a tie going to the even one
NRedondearDer(a, k) ==
  IF k <= 0 THEN NIzq(a, -k)
  ELSE LET alto == NDer(a, k)
           resto == \E i \in 1..k - 1 : NBit(a, i) = 1
           sube == NBit(a, k) = 1 /\ (resto \/ NBit(alto, 1) = 1)
       IN IF sube THEN NSuma(alto, <<1>>) ELSE alto

\* ------------------------------------------------------- Python float
Precision == 53

Cero == [signo |-> 0, mantisa |-> <<>>, exponente |-> 0]

\* The double nearest to signo * n * 2^e, a tie going to the even mantisa:
\* what every float operation returns for its exact result.
Redondear(signo, n, e) ==
  IF Len(n) = 0 \/ signo = 0 THEN Cero
  ELSE LET k == NBits(n) - Precision
           m == NRedondearDer(n, k)
       IN IF NBits(m) > Precision
          THEN [signo |-> signo, mantisa |-> NDer(m, 1), exponente |-> e + k + 1]
          ELSE [signo |-> signo, mantisa |-> m, exponente |-> e + k]

\* A number held exactly: signo * n * 2^e, n of any size.
Exacto(signo, n, e) ==
  IF Len(n) = 0 \/ signo = 0 THEN [signo |-> 0, n |-> <<>>, e |-> 0]
  ELSE [signo |-> signo, n |-> n, e |-> e]

ExactoDe(x) == Exacto(x.signo, x.mantisa, x.exponente)

ProductoExacto(x, y) == Exacto(x.signo * y.signo, NMul(x.n, y.n), x.e + y.e)

SumaExacta(x, y) ==
  IF x.signo = 0 THEN y
  ELSE IF y.signo = 0 THEN x
  ELSE LET e == IF x.e < y.e THEN x.e ELSE y.e
           a == NIzq(x.n, x.e - e)
           b == NIzq(y.n, y.e - e)
       IN IF x.signo = y.signo THEN Exacto(x.signo, NSuma(a, b), e)
          ELSE IF NMenor(a, b) THEN Exacto(y.signo, NResta(b, a), e)
          ELSE Exacto(x.signo, NResta(a, b), e)

RedondearExacto(x) == Redondear(x.signo, x.n, x.e)

Signo(n) == IF n > 0 THEN 1 ELSE IF n < 0 THEN -1 ELSE 0

Abs(n) == IF n < 0 THEN -n ELSE n

\* float(n) for an int n
float(n) == Redondear(Signo(n), NDe(Abs(n)), 0)

\* The double nearest to signo * n / d (n of any size, d one digit, d > 0):
\* the quotient is taken to more than Precision + 2 bits and a non-zero
\* remainder is kept as one more low bit.
Cociente(signo, n, d) ==
  IF Len(n) = 0 THEN Cero
  ELSE LET k == Precision + 2 + BitsCifra
           dm == NDivCifra(NIzq(n, k), d)
       IN Redondear(signo,
                    NSuma(NIzq(dm.q, 1), IF dm.r = 0 THEN <<>> ELSE <<1>>),
                    -k - 1)

\* the float a decimal literal n/d denotes (0 < d < 2^15), e.g.
\* Literal(2999, 100) for 29.99
Literal(n, d) == Cociente(Signo(n), NDe(Abs(n)), d)

\* x * y, x + y and x - y of floats
float_mul(x, y) == RedondearExacto(ProductoExacto(ExactoDe(x), ExactoDe(y)))

float_add(x, y) == RedondearExacto(SumaExacta(ExactoDe(x), ExactoDe(y)))

float_sub(x, y) == float_add(x, [y EXCEPT !.signo = -y.signo])

\* fabs(x) >= fabs(y)
fabs_ge(x, y) ==
  \/ y.signo = 0
  \/ /\ x.signo # 0
     /\ \/ x.exponente > y.exponente
        \/ x.exponente = y.exponente /\ ~NMenor(x.mantisa, y.mantisa)

\* round(v, 2): the hundredth nearest to the exact value of v (a tie going
\* to the even one), then the float nearest to that hundredth.
round2(v) ==
  LET h == NRedondearDer(NMulCifra(v.mantisa, 100), -v.exponente)
  IN Cociente(v.signo, h, 100)

\* ----------------------------------------- ejemplo_pydantic.py: Producto
\* mutant: v < 0 in place of v <= 0
Producto_validar_precio_cero(v) == IF v.signo < 0 THEN Raise ELSE Ok(round2(v))

Producto_validar_precio(v) == IF v.signo <= 0 THEN Raise ELSE Ok(round2(v))

Producto_validar_stock(v) == IF v < 0 THEN Raise ELSE Ok(v)

categorias_validas ==
  << <<"e","l","e","c","t","r","o","n","i","c","a">>,
     <<"r","o","p","a">>,
     <<"l","i","b","r","o","s">>,
     <<"h","o","g","a","r">>,
     <<"d","e","p","o","r","t","e","s">> >>

EnLista(v, lista) == \E i \in 1..Len(lista) : lista[i] = v

\* mutant: the membership test on v in place of v.lower()
Producto_validar_categoria_exacta(v) ==
  IF ~EnLista(v, categorias_validas) THEN Raise ELSE Ok(lower(v))

Producto_validar_categoria(v) ==
  IF ~EnLista(lower(v), categorias_validas) THEN Raise ELSE Ok(lower(v))

\* stock has the default 0; a default is stored without running its validator.
Producto(kw) ==
  LET p == Producto_validar_precio(kw.precio)
      c == Producto_validar_categoria(kw.categoria)
      s == IF Len(kw.stock) = 0 THEN Ok(0) ELSE Producto_validar_stock(kw.stock[1])
  IN Resultado(Falla("precio", p) \cup Falla("categoria", c) \cup Falla("stock", s),
               [id |-> kw.id, nombre |-> kw.nombre, precio |-> p.v,
                categoria |-> c.v, stock |-> s.v, descripcion |-> kw.descripcion])

\* ---------------------------------- ejemplo_pydantic.py: ItemOrden, Orden
ItemOrden_validar_cantidad(v) == IF v <= 0 THEN Raise ELSE Ok(v)

ItemOrden(kw) ==
  LET c == ItemOrden_validar_cantidad(kw.cantidad)
  IN Resultado(Falla("cantidad", c),
               [producto_id |-> kw.producto_id, cantidad |-> c.v,
                precio_unitario |-> kw.precio_unitario])

\* self.cantidad * self.precio_unitario: the int is converted to float
ItemOrden_total(self) == float_mul(float(self.cantidad), self.precio_unitario)

estados_validos ==
  << <<"p","e","n","d","i","e","n","t","e">>,
     <<"c","o","n","f","i","r","m","a","d","a">>,
     <<"e","n","v","i","a","d","a">>,
     <<"e","n","t","r","e","g","a","d","a">>,
     <<"c","a","n","c","e","l","a","d","a">> >>

estado_por_defecto == <<"p","e","n","d","i","e","n","t","e">>

Orden_validar_estado(v) == IF ~EnLista(v, estados_validos) THEN Raise ELSE Ok(v)

\* An element given for items is a mapping of keyword arguments or an
\* ItemOrden instance, in whatever state its fields are.
Instancia(r) == [instancia |-> r]

EsInstancia(x) == "instancia" \in DOMAIN x

\* items: List[ItemOrden]. A mapping is validated as an ItemOrden; an
\* instance is taken as it is, without validating it again.
\* fecha_creacion defaults to datetime.now(), here the argument ahora.
Orden(kw, ahora) ==
  LET its == [i \in 1..Len(kw.items) |->
                IF EsInstancia(kw.items[i])
                THEN Resultado({}, kw.items[i].instancia)
                ELSE ItemOrden(kw.items[i])]
      e == IF Len(kw.estado) = 0 THEN Ok(estado_por_defecto)
           ELSE Orden_validar_estado(kw.estado[1])
      malos == IF \E i \in 1..Len(its) : its[i].errores # {} THEN {"items"} ELSE {}
  IN Resultado(malos \cup Falla("estado", e),
               [id |-> kw.id, usuario_id |-> kw.usuario_id,
                items |-> [i \in 1..Len(its) |-> its[i].registro],
                fecha_creacion |-> Dado(kw.fecha_creacion, ahora),
                estado |-> e.v])

\* The built-in sum() depends on the interpreter that runs the file.
Interpretes == {"CPython < 3.12", "CPython >= 3.12"}

\* CPython < 3.12: the floats are added left to right, every addition rounded.
RECURSIVE suma(_, _)
suma(acumulado, totales) ==
  IF Len(totales) = 0 THEN acumulado
  ELSE suma(float_add(acumulado, Head(totales)), Tail(totales))

\* CPython >= 3.12: the rounding error of every addition is collected in c
\* (Neumaier) and added to the result at the end, when it is not zero.
RECURSIVE suma_compensada(_, _, _)
suma_compensada(f_result, c, totales) ==
  IF Len(totales) = 0
  THEN (IF c.signo # 0 THEN float_add(f_result, c) ELSE f_result)
  ELSE LET x == Head(totales)
           t == float_add(f_result, x)
           error == IF fabs_ge(f_result, x)
                    THEN float_add(float_sub(f_result, t), x)
                    ELSE float_add(float_sub(x, t), f_result)
       IN suma_compensada(t, float_add(c, error), Tail(totales))

\* sum(totales): the start is the int 0, to which the first float is added;
\* the sum of no items is the int 0, which equals 0.0.
sum(cpython, totales) ==
  IF Len(totales) = 0 THEN float(0)
  ELSE IF cpython = "CPython >= 3.12"
  THEN suma_compensada(float_add(float(0), Head(totales)), Cero, Tail(totales))
  ELSE suma(float_add(float(0), Head(totales)), Tail(totales))

\* sum(item.total for item in self.items)
Orden_total_orden(self, cpython) ==
  sum(cpython, [i \in 1..Len(self.items) |-> ItemOrden_total(self.items[i])])

\* ------------------------------------ ejemplo_pydantic.py: ConfiguracionApp
PuertoMin == 1024

PuertoMax == 65535

ConexionesMin == 1

ConexionesMax == 1000

PuertoDefecto == 8000

ConexionesDefecto == 100

nombre_app_defecto == <<"M","i"," ","T","i","e","n","d","a"," ","O","n","l","i","n","e">>

\* mutant: v <= 1024 in place of v < 1024
ConfiguracionApp_validar_puerto_estricto(v) ==
  IF v <= PuertoMin \/ v > PuertoMax THEN Raise ELSE Ok(v)

ConfiguracionApp_validar_puerto(v) ==
  IF v < PuertoMin \/ v > PuertoMax THEN Raise ELSE Ok(v)

ConfiguracionApp_validar_conexiones(v) ==
  IF v < ConexionesMin \/ v > ConexionesMax THEN Raise ELSE Ok(v)

\* base_datos_url is required; the other fields have defaults, stored
\* without running their validators.
ConfiguracionApp(kw) ==
  LET p == IF Len(kw.puerto) = 0 THEN Ok(PuertoDefecto)
           ELSE ConfiguracionApp_validar_puerto(kw.puerto[1])
      m == IF Len(kw.max_conexiones) = 0 THEN Ok(ConexionesDefecto)
           ELSE ConfiguracionApp_validar_conexiones(kw.max_conexiones[1])
      u == IF Len(kw.base_datos_url) = 0 THEN Raise ELSE Ok(kw.base_datos_url[1])
  IN Resultado(Falla("puerto", p) \cup Falla("max_conexiones", m)
                 \cup Falla("base_datos_url", u),
               [nombre_app |-> Dado(kw.nombre_app, nombre_app_defecto),
                puerto |-> p.v, debug |-> Dado(kw.debug, FALSE),
                base_datos_url |-> u.v, max_conexiones |-> m.v])

\* ------------------------------------------------ .json() and .parse_raw()
\* JSON values are tagged; a datetime is written with isoformat().
JNull == [t |-> "null"]

JNum(x) == [t |-> "num", v |-> x]

JStr(x) == [t |-> "str", v |-> x]

JBool(x) == [t |-> "bool", v |-> x]

JList(x) == [t |-> "list", v |-> x]

\* datetime.isoformat(): the microseconds are written only when non-zero.
isoformat(d) == IF d.us = 0 THEN <<d.s>> ELSE <<d.s, d.us>>

fromisoformat(x) == [s |-> x[1], us |-> IF Len(x) > 1 THEN x[2] ELSE 0]

json_item(r) ==
  [producto_id |-> JNum(r.producto_id), cantidad |-> JNum(r.cantidad),
   precio_unitario |-> JNum(r.precio_unitario)]

json(tipo, r) ==
  CASE tipo = "Usuario" ->
         [id |-> JNum(r.id), nombre |-> JStr(r.nombre), email |-> JStr(r.email),
          edad |-> IF Len(r.edad) = 0 THEN JNull ELSE JNum(r.edad[1]),
          activo |-> JBool(r.activo)]
    [] tipo = "UsuarioBase" ->
         [nombre |-> JStr(r.nombre), email |-> JStr(r.email),
          telefono |-> IF Len(r.telefono) = 0 THEN JNull ELSE JStr(r.telefono[1]),
          activo |-> JBool(r.activo)]
    [] tipo = "UsuarioUpdate" ->
         [nombre |-> IF Len(r.nombre) = 0 THEN JNull ELSE JStr(r.nombre[1]),
          email |-> IF Len(r.email) = 0 THEN JNull ELSE JStr(r.email[1]),
          telefono |-> IF Len(r.telefono) = 0 THEN JNull ELSE JStr(r.telefono[1]),
          activo |-> IF Len(r.activo) = 0 THEN JNull ELSE JBool(r.activo[1])]
    [] tipo = "Producto" ->
         [id |-> JNum(r.id), nombre |-> JStr(r.nombre), precio |-> JNum(r.precio),
          categoria |-> JStr(r.categoria), stock |-> JNum(r.stock),
          descripcion |-> IF Len(r.descripcion) = 0 THEN JNull
                          ELSE JStr(r.descripcion[1])]
    [] tipo = "ItemOrden" -> json_item(r)
    [] tipo = "Orden" ->
         [id |-> JNum(r.id), usuario_id |-> JNum(r.usuario_id),
          items |-> JList([i \in 1..Len(r.items) |-> json_item(r.items[i])]),
          fecha_creacion |-> JStr(isoformat(r.fecha_creacion)),
          estado |-> JStr(r.estado)]
    [] tipo = "ConfiguracionApp" ->
         [nombre_app |-> JStr(r.nombre_app), puerto |-> JNum(r.puerto),
          debug |-> JBool(r.debug), base_datos_url |-> JStr(r.base_datos_url),
          max_conexiones |-> JNum(r.max_conexiones)]

\* null becomes None, any other JSON value the value itself
Opcional(j) == IF j.t = "null" THEN None ELSE Some(j.v)

kwargs_item(j) ==
  [producto_id |-> j.producto_id.v, cantidad |-> j.cantidad.v,
   precio_unitario |-> j.precio_unitario.v]

\* json.loads: the keyword arguments the JSON object gives the constructor
kwargs(tipo, j) ==
  CASE tipo = "Usuario" ->
         [id |-> j.id.v, nombre |-> j.nombre.v, email |-> j.email.v,
          edad |-> Opcional(j.edad), activo |-> Some(j.activo.v)]
    [] tipo = "UsuarioBase" ->
         [nombre |-> j.nombre.v, email |-> j.email.v,
          telefono |-> Opcional(j.telefono), activo |-> Some(j.activo.v)]
    [] tipo = "UsuarioUpdate" ->
         [nombre |-> Opcional(j.nombre), email |-> Opcional(j.email),
          telefono |-> Opcional(j.telefono), activo |-> Opcional(j.activo)]
    [] tipo = "Producto" ->
         [id |-> j.id.v, nombre |-> j.nombre.v, precio |-> j.precio.v,
          categoria |-> j.categoria.v, stock |-> Some(j.stock.v),
          descripcion |-> Opcional(j.descripcion)]
    [] tipo = "ItemOrden" -> kwargs_item(j)
    [] tipo = "Orden" ->
         [id |-> j.id.v, usuario_id |-> j.usuario_id.v,
          items |-> [i \in 1..Len(j.items.v) |-> kwargs_item(j.items.v[i])],
          fecha_creacion |-> Some(fromisoformat(j.fecha_creacion.v)),
          estado |-> Some(j.estado.v)]
    [] tipo = "ConfiguracionApp" ->
         [nombre_app |-> Some(j.nombre_app.v), puerto |-> Some(j.puerto.v),
          debug |-> Some(j.debug.v), base_datos_url |-> Some(j.base_datos_url.v),
          max_conexiones |-> Some(j.max_conexiones.v)]

\* Model(**kw): the constructor of the class named tipo
Construir(tipo, kw, ahora) ==
  CASE tipo = "Usuario" -> Usuario(kw)
    [] tipo = "UsuarioBase" -> UsuarioBase(kw)
    [] tipo = "UsuarioUpdate" -> UsuarioUpdate(kw)
    [] tipo = "Producto" -> Producto(kw)
    [] tipo = "ItemOrden" -> ItemOrden(kw)
    [] tipo = "Orden" -> Orden(kw, ahora)
    [] tipo = "ConfiguracionApp" -> ConfiguracionApp(kw)

parse_raw(tipo, j, ahora) == Construir(tipo, kwargs(tipo, j), ahora)

\* ------------------------------------- entities/usuario.py: Usuario (ORM)
\* The class statement of the entity (lines 11-41) is executed before the
\* statement that raises NameError (line 45).
\* The columns the entity declares; an instance has these attributes only.
Usuario_columnas ==
  {"id_usuario", "nombre", "email", "telefono", "activo", "es_admin",
   "fecha_creacion", "fecha_edicion"}

\* self.<nombre>: AttributeError for a name the entity does not declare
getattr(self, nombre) ==
  IF nombre \in DOMAIN self THEN Ok(self[nombre]) ELSE Raise

\* The attributes to_dict reads, in order, with the key each is stored under.
to_dict_lecturas ==
  << <<"id", "id">>, <<"nombre", "nombre">>, <<"email", "email">>,
     <<"telefono", "telefono">>, <<"activo", "activo">>,
     <<"fecha_registro", "fecha_registro">>,
     <<"fecha_actualizacion", "fecha_actualizacion">> >>

to_dict_fechas == {"fecha_registro", "fecha_actualizacion"}

\* to_dict: the first attribute that cannot be read raises AttributeError;
\* otherwise a timestamp is isoformat() or None and any other value is kept.
Usuario_to_dict(self) ==
  IF \E i \in 1..Len(to_dict_lecturas) : ~getattr(self, to_dict_lecturas[i][2]).ok
  THEN [excepcion |-> "AttributeError", dict |-> Ninguno]
  ELSE [excepcion |-> "",
        dict |-> [k \in {to_dict_lecturas[i][1] : i \in 1..Len(to_dict_lecturas)} |->
                    LET x == getattr(self, k).v
                    IN IF k \in to_dict_fechas
                       THEN (IF Len(x) = 0 THEN None ELSE Some(isoformat(x[1])))
                       ELSE x]]

\* ------------------------------------------------------------------ inputs
Seqs(S, n) == UNION {[1..k -> S] : k \in 0..n}

NombreChars == {"a", "B", " ", "\r", "\\x0b", "-"}

Nombres == Seqs(NombreChars, MaxNombre)

NombresMuestra == {<<"A","n","a">>, <<" ", "a">>, <<" ", "\t">>, <<"\\u2003", "\n">>}

TelefonoChars == {"1", "a", "+", "-", "(", ")", " "}

TelefonoEjemplo == <<"+","1"," ","(","5","5","5",")"," ","1","2","3","-","4","5","6","7">>

TelefonoMalo == <<"a","b","c","-","1","2","3">>

TelefonoLargo == [i \in 1..TelefonoMax + 1 |-> "1"]

Telefonos ==
  Seqs(TelefonoChars, MaxTelefono) \cup {TelefonoEjemplo, TelefonoMalo, TelefonoLargo}

TelefonosMuestra == {None, Some(<<"1">>), Some(<<"a">>)}

EmailBueno == <<"a","@","b",".","c","o">>

EmailMalo == <<"a","b",".","c","o">>

Edades == {None, Some(-1), Some(0), Some(30), Some(120), Some(121)}

UsuarioInputs ==
  [id : {1}, nombre : Nombres, email : {EmailBueno}, edad : Edades,
   activo : {None, Some(FALSE)}]

UsuarioBaseInputs ==
  [nombre : Nombres, email : {EmailBueno, EmailMalo},
   telefono : TelefonosMuestra, activo : {None}]
  \cup
  [nombre : NombresMuestra, email : {EmailBueno},
   telefono : {Some(x) : x \in Telefonos}, activo : {None, Some(FALSE)}]

UsuarioUpdateInputs ==
  [nombre : {None} \cup {Some(n) : n \in Nombres},
   email : {None, Some(EmailBueno), Some(EmailMalo)},
   telefono : TelefonosMuestra, activo : {None}]
  \cup
  [nombre : {None, Some(<<"A","n","a">>)}, email : {None},
   telefono : {Some(x) : x \in Telefonos}, activo : {None, Some(TRUE)}]

\* prices: the multiples of 1/256 from -1/256 to MaxPrecio/256, a few
\* hundredths, 0.005, 2.675 and 1299.99
Precios ==
  {Literal(k, 256) : k \in -1..MaxPrecio}
    \cup {Literal(h, 100) : h \in 0..3}
    \cup {Literal(5, 1000), Literal(2675, 1000), Literal(129999, 100)}

upper(s) == [i \in 1..Len(s) |-> upper_char(s[i])]

alterna(s) == [i \in 1..Len(s) |-> IF i % 2 = 0 THEN upper_char(s[i]) ELSE s[i]]

Categorias ==
  UNION {{categorias_validas[i], upper(categorias_validas[i]),
          title(categorias_validas[i]), alterna(categorias_validas[i])} :
         i \in 1..Len(categorias_validas)}
    \cup {<<"e","l","e","c","t","r","o","n","i","c","s">>, <<"j","u","g","u","e","t","e","s">>, <<>>, <<"r","o","p","a"," ">>, <<"r","o","p">>}

ProductoInputs ==
  [id : {1}, nombre : {<<"L","a","p","t","o","p">>}, precio : Precios, categoria : Categorias,
   stock : {None, Some(-1), Some(0), Some(10)}, descripcion : {None}]

\* keyword arguments of line items whose products and sums are exact
ItemsExactos ==
  [producto_id : {1}, cantidad : {0, 1, 2},
   precio_unitario : {Literal(-1, 1), Literal(1, 256), Literal(1, 2)}]

\* the line items of demostrar_orden: 2 x 29.99 and 1 x 99.99
ItemsEjemplo ==
  << [producto_id |-> 1, cantidad |-> 2, precio_unitario |-> Literal(2999, 100)],
     [producto_id |-> 2, cantidad |-> 1, precio_unitario |-> Literal(9999, 100)] >>

\* line items in hundredths: 1 x 0.02 and 3 x 99.99
ItemsCentesimos ==
  << [producto_id |-> 1, cantidad |-> 1, precio_unitario |-> Literal(2, 100)],
     [producto_id |-> 2, cantidad |-> 3, precio_unitario |-> Literal(9999, 100)] >>

\* three line items in tenths: 1 x 0.1, 1 x 0.2 and 1 x 0.3
ItemsDecimos ==
  << [producto_id |-> 1, cantidad |-> 1, precio_unitario |-> Literal(1, 10)],
     [producto_id |-> 2, cantidad |-> 1, precio_unitario |-> Literal(2, 10)],
     [producto_id |-> 3, cantidad |-> 1, precio_unitario |-> Literal(3, 10)] >>

ItemOrdenInputs ==
  ItemsExactos
    \cup [producto_id : {1}, cantidad : {-1, 3}, precio_unitario : {float(0)}]
    \cup {ItemsEjemplo[1], ItemsEjemplo[2], ItemsCentesimos[1], ItemsCentesimos[2]}

\* ItemOrden instances: built by the constructor, and then possibly with
\* cantidad reassigned
ItemsConstruidos ==
  {ItemOrden(kw).registro : kw \in {k \in ItemsExactos : ItemOrden(k).errores = {}}}

ItemsInstancias ==
  {Instancia(r) : r \in ItemsConstruidos}
    \cup {Instancia([r EXCEPT !.cantidad = 0]) : r \in ItemsConstruidos}

Instancias(items) == [i \in 1..Len(items) |-> Instancia(items[i])]

Ahoras == {[s |-> 1, us |-> 0], [s |-> 2, us |-> 500]}

Estados == {None, Some(<<"c","o","n","f","i","r","m","a","d","a">>), Some(<<"P","e","n","d","i","e","n","t","e">>)}

\* items are given as keyword arguments or, as in demostrar_orden, as instances
OrdenInputs ==
  [id : {1}, usuario_id : {1},
   items : Seqs(ItemsExactos, MaxItems) \cup Seqs(ItemsInstancias, MaxItems)
             \cup {Instancias(ItemsEjemplo), Instancias(ItemsCentesimos),
                   Instancias(<<ItemsCentesimos[2]>>), Instancias(ItemsDecimos)},
   fecha_creacion : {None, Some([s |-> 3, us |-> 7])}, estado : Estados]

ConfiguracionAppInputs ==
  [nombre_app : {None},
   puerto : {None} \cup {Some(x) : x \in {80, PuertoMin - 1, PuertoMin, PuertoDefecto,
                                         8080, PuertoMax, PuertoMax + 1, 70000}},
   debug : {None, Some(TRUE)},
   base_datos_url : {None, Some(<<"d","b",":","/","/","x">>)},
   max_conexiones : {None} \cup {Some(x) : x \in {ConexionesMin - 1, ConexionesMin,
                                  ConexionesDefecto, ConexionesMax, ConexionesMax + 1}}]

\* persisted entities: the storage layer sets the key and the timestamps
Entidades ==
  [id_usuario : {1}, nombre : {<<"A","n","a">>}, email : {EmailBueno},
   telefono : {None, Some(<<"1">>)}, activo : {TRUE}, es_admin : {FALSE},
   fecha_creacion : {Some([s |-> 1, us |-> 0])},
   fecha_edicion : {None, Some([s |-> 2, us |-> 500])}]

\* field reassignment: the fields reassigned, and the values given to them
Asignables(t) ==
  CASE t = "Usuario" -> {"nombre", "edad"}
    [] t = "UsuarioBase" -> {"nombre", "telefono"}
    [] t = "UsuarioUpdate" -> {"nombre"}
    [] t = "Producto" -> {"precio", "categoria", "stock"}
    [] t = "ItemOrden" -> {"cantidad"}
    [] t = "Orden" -> {"estado"}
    [] t = "ConfiguracionApp" -> {"puerto", "max_conexiones"}

Muestra(t, campo) ==
  CASE campo = "nombre" /\ t = "UsuarioUpdate" -> {Some(<<>>)}
    [] campo = "nombre" /\ t # "UsuarioUpdate" -> {<<" ">>}
    [] campo = "edad" -> {Some(200)}
    [] campo = "telefono" -> {Some(<<"a">>)}
    [] campo = "precio" -> {Literal(-1, 1), Literal(5, 100)}
    [] campo = "categoria" -> {upper(<<"j","u","g","u","e","t","e","s">>)}
    [] campo = "stock" -> {-1}
    [] campo = "cantidad" -> {0}
    [] campo = "estado" -> {<<"P","e","n","d","i","e","n","t","e">>}
    [] campo = "puerto" -> {80}
    [] campo = "max_conexiones" -> {0}

Modelos ==
  {"Usuario", "UsuarioBase", "UsuarioUpdate", "Producto", "ItemOrden", "Orden",
   "ConfiguracionApp"}

\* ----------------------------------------------------------- state machine
VARIABLES
  op,            \* the last operation
  tipo,          \* the class it was applied to
  entrada,       \* its input
  registro,      \* the record it left, Ninguno when it raised
  errores,       \* the fields whose validation failed
  excepcion,     \* "" or the exception raised
  salida,        \* the value returned by json(), total, total_orden, to_dict
  original,      \* the record json() was called on, and whether it was validated
  validado,      \* registro came out of validation and was not reassigned since
  asignaciones,  \* field reassignments since the record was first built
  interprete     \* the interpreter that runs the program

vars ==
  <<op, tipo, entrada, registro, errores, excepcion, salida, original, validado,
    asignaciones, interprete>>

Init ==
  /\ op = "init"
  /\ tipo = ""
  /\ entrada = Ninguno
  /\ registro = Ninguno
  /\ errores = {}
  /\ excepcion = ""
  /\ salida = Ninguno
  /\ original = Ninguno
  /\ validado = FALSE
  /\ asignaciones = 0
  /\ interprete \in Interpretes

Existe == registro # Ninguno

\* Model(**kw): the record, or an exception and no record. Records are
\* built independently of one another, so a record is built from the state
\* in which none is held (see Descartar).
Instanciar(t, kw, ahora) ==
  LET res == Construir(t, kw, ahora)
  IN /\ op' = "construir"
     /\ tipo' = t
     /\ entrada' = kw
     /\ registro' = res.registro
     /\ errores' = res.errores
     /\ excepcion' = res.excepcion
     /\ salida' = Ninguno
     /\ original' = Ninguno
     /\ validado' = (res.excepcion = "")
     /\ asignaciones' = 0
     /\ UNCHANGED interprete

ConstruirUsuario ==
  /\ op = "init"
  /\ \E kw \in UsuarioInputs : Instanciar("Usuario", kw, None)

ConstruirUsuarioBase ==
  /\ op = "init"
  /\ \E kw \in UsuarioBaseInputs : Instanciar("UsuarioBase", kw, None)

ConstruirUsuarioUpdate ==
  /\ op = "init"
  /\ \E kw \in UsuarioUpdateInputs :
    Instanciar("UsuarioUpdate", kw, None)

ConstruirProducto ==
  /\ op = "init"
  /\ \E kw \in ProductoInputs : Instanciar("Producto", kw, None)

ConstruirItemOrden ==
  /\ op = "init"
  /\ \E kw \in ItemOrdenInputs : Instanciar("ItemOrden", kw, None)

ConstruirOrden ==
  /\ op = "init"
  /\ \E kw \in OrdenInputs, ahora \in Ahoras : Instanciar("Orden", kw, ahora)

ConstruirConfiguracionApp ==
  /\ op = "init"
  /\ \E kw \in ConfiguracionAppInputs :
    Instanciar("ConfiguracionApp", kw, None)

\* registro.campo = valor: no class sets validate_assignment, so the value
\* is stored as given.
Asignar ==
  /\ Existe
  /\ tipo \in Modelos
  /\ asignaciones < MaxAsignaciones
  /\ \E campo \in Asignables(tipo) :
       \E valor \in Muestra(tipo, campo) :
         /\ registro' = [registro EXCEPT ![campo] = valor]
         /\ entrada' = [campo |-> campo, valor |-> valor]
  /\ op' = "asignar"
  /\ validado' = FALSE
  /\ asignaciones' = asignaciones + 1
  /\ errores' = {}
  /\ excepcion' = ""
  /\ salida' = Ninguno
  /\ original' = Ninguno
  /\ UNCHANGED <<tipo, interprete>>

\* registro.json()
Serializar ==
  /\ Existe
  /\ tipo \in Modelos
  /\ op # "json"
  /\ op' = "json"
  /\ salida' = json(tipo, registro)
  /\ original' = [registro |-> registro, validado |-> validado]
  /\ entrada' = Ninguno
  /\ UNCHANGED <<tipo, registro, errores, excepcion, validado, asignaciones,
                 interprete>>

\* Model.parse_raw(salida)
Deserializar ==
  /\ op = "json"
  /\ \E ahora \in Ahoras :
       LET res == parse_raw(tipo, salida, ahora)
       IN /\ registro' = res.registro
          /\ errores' = res.errores
          /\ excepcion' = res.excepcion
          /\ validado' = (res.excepcion = "")
  /\ op' = "parse_raw"
  /\ entrada' = kwargs(tipo, salida)
  /\ UNCHANGED <<tipo, salida, original, asignaciones, interprete>>

\* item.total
TotalItem ==
  /\ Existe
  /\ tipo = "ItemOrden"
  /\ op # "total"
  /\ op' = "total"
  /\ salida' = ItemOrden_total(registro)
  /\ UNCHANGED <<tipo, entrada, registro, errores, excepcion, original, validado,
                 asignaciones, interprete>>

\* orden.total_orden
TotalOrden ==
  /\ Existe
  /\ tipo = "Orden"
  /\ op # "total_orden"
  /\ op' = "total_orden"
  /\ salida' = Orden_total_orden(registro, interprete)
  /\ UNCHANGED <<tipo, entrada, registro, errores, excepcion, original, validado,
                 asignaciones, interprete>>

\* usuario.to_dict() on a persisted entity
ToDict ==
  /\ op = "init"
  /\ \E ent \in Entidades :
    LET res == Usuario_to_dict(ent)
    IN /\ op' = "to_dict"
       /\ tipo' = "UsuarioORM"
       /\ entrada' = Ninguno
       /\ registro' = ent
       /\ errores' = {}
       /\ excepcion' = res.excepcion
       /\ salida' = res.dict
       /\ original' = Ninguno
       /\ validado' = FALSE
       /\ asignaciones' = 0
       /\ UNCHANGED interprete

\* the record and the last results go out of scope
Descartar ==
  /\ op # "init"
  /\ op' = "init"
  /\ tipo' = ""
  /\ entrada' = Ninguno
  /\ registro' = Ninguno
  /\ errores' = {}
  /\ excepcion' = ""
  /\ salida' = Ninguno
  /\ original' = Ninguno
  /\ validado' = FALSE
  /\ asignaciones' = 0
  /\ UNCHANGED interprete

Next ==
  \/ ConstruirUsuario
  \/ ConstruirUsuarioBase
  \/ ConstruirUsuarioUpdate
  \/ ConstruirProducto
  \/ ConstruirItemOrden
  \/ ConstruirOrden
  \/ ConstruirConfiguracionApp
  \/ Asignar
  \/ Serializar
  \/ Deserializar
  \/ TotalItem
  \/ TotalOrden
  \/ ToDict
  \/ Descartar

Spec == Init /\ [][Next]_vars

\* ================================================================== claims
\* Helpers of the claims, stated without the validators.
SoloEspacios(s) == \A i \in 1..Len(s) : s[i] \in Espacios

FormatoTelefono == {"+", "-", "(", ")", " "}

\* the string left after removing the characters + - ( ) and space
Resto(s) == SelectSeq(s, LAMBDA c : c \notin FormatoTelefono)

TieneNoDigito(s) == \E i \in 1..Len(s) : s[i] \notin Digitos

IgualSinCaso(a, b) ==
  /\ Len(a) = Len(b)
  /\ \A i \in 1..Len(a) :
       \/ a[i] = b[i]
       \/ \E k \in 1..Len(Minusculas) :
            {a[i], b[i]} = {Minusculas[k], Mayusculas[k]}

\* |p - h/100| <= 1/200 for a float p > 0 below 2^53 and a natural number h:
\* |200 * mantisa - 2 * h * 2^-exponente| <= 2^-exponente
AMedioCentesimo(p, h) ==
  LET a == NMulCifra(p.mantisa, 200)
      b == NIzq(NDe(2 * h), -p.exponente)
      d == IF NMenor(a, b) THEN NResta(b, a) ELSE NResta(a, b)
  IN ~NMenor(NIzq(<<1>>, -p.exponente), d)

\* the number of whole hundredths in a float p > 0 below 2^53
Centesimos(p) == NEntero(NDer(NMulCifra(p.mantisa, 100), -p.exponente))

\* q is p rounded to 2 decimal places: the float of a hundredth that is at
\* most half a hundredth away from p
RedondeadoA2(p, q) ==
  \E h \in {Centesimos(p), Centesimos(p) + 1} :
    q = Literal(h, 100) /\ AMedioCentesimo(p, h)

\* cantidad x precio_unitario of an item, exactly
TotalExacto(item) ==
  ProductoExacto(Exacto(Signo(item.cantidad), NDe(Abs(item.cantidad)), 0),
                 ExactoDe(item.precio_unitario))

\* the exact sum of the first n items
RECURSIVE SumaHasta(_, _)
SumaHasta(items, n) ==
  IF n = 0 THEN Exacto(0, <<>>, 0)
  ELSE SumaExacta(SumaHasta(items, n - 1), TotalExacto(items[n]))

TelefonoValido(opt) ==
  Len(opt) = 0 \/ Len(Resto(opt[1])) = 0 \/ ~TieneNoDigito(Resto(opt[1]))

\* the validation rules of each record type (section 3 of the specification)
Cumple(t, r) ==
  CASE t = "Usuario" ->
         /\ Len(r.nombre) > 0 /\ ~SoloEspacios(r.nombre)
         /\ strip(r.nombre) = r.nombre /\ title(r.nombre) = r.nombre
         /\ (Len(r.edad) > 0 => r.edad[1] >= 0 /\ r.edad[1] <= 120)
    [] t = "UsuarioBase" ->
         /\ Len(r.nombre) > 0 /\ ~SoloEspacios(r.nombre)
         /\ strip(r.nombre) = r.nombre /\ title(r.nombre) = r.nombre
         /\ TelefonoValido(r.telefono)
    [] t = "UsuarioUpdate" ->
         /\ Len(r.nombre) > 0 =>
              /\ Len(r.nombre[1]) > 0 /\ ~SoloEspacios(r.nombre[1])
              /\ strip(r.nombre[1]) = r.nombre[1] /\ title(r.nombre[1]) = r.nombre[1]
         /\ TelefonoValido(r.telefono)
    [] t = "Producto" ->
         /\ r.precio.signo > 0 /\ RedondeadoA2(r.precio, r.precio)
         /\ r.stock >= 0
         /\ EnLista(r.categoria, categorias_validas)
    [] t = "ItemOrden" -> r.cantidad > 0
    [] t = "Orden" ->
         /\ EnLista(r.estado, estados_validos)
         /\ \A i \in 1..Len(r.items) : r.items[i].cantidad > 0
    [] t = "ConfiguracionApp" ->
         /\ r.puerto >= 1024 /\ r.puerto <= 65535
         /\ r.max_conexiones >= 1 /\ r.max_conexiones <= 1000

\* C1: after any sequence of constructions, partial updates and field
\* reassignments every record that exists satisfies every validation rule of
\* its type, and an operation that raises ValidationError leaves no record.
C1_RegistrosValidos ==
  /\ (tipo \in Modelos /\ Existe) => Cumple(tipo, registro)
  /\ (tipo \in Modelos /\ errores # {}) =>
       (registro = Ninguno /\ excepcion = "ValidationError")

\* C2: serializing a validly constructed record and constructing a record
\* from that form succeeds and yields a record field-wise equal to the original.
C2_IdaYVuelta ==
  (op = "parse_raw" /\ original.validado) =>
    (errores = {} /\ excepcion = "" /\ registro = original.registro)

\* C3: for every valid order total_orden is the sum over the line items of
\* cantidad x precio_unitario, as a float the one nearest to that sum (159.97
\* for 2 x 29.99 and 1 x 99.99), an item's total is cantidad x
\* precio_unitario, and computing either changes no field.
C3_Totales ==
  [][/\ (op' = "total_orden" /\ Cumple("Orden", registro)) =>
          /\ registro' = registro
          /\ salida' = RedondearExacto(SumaHasta(registro.items, Len(registro.items)))
          /\ (registro.items = ItemsEjemplo => salida' = Literal(15997, 100))
     /\ (op' = "total" /\ Cumple("ItemOrden", registro)) =>
          /\ registro' = registro
          /\ salida' = RedondearExacto(TotalExacto(registro))]_vars

\* C4: a given phone is rejected exactly when the string left after removing
\* + - ( ) and space is non-empty and contains a non-digit, and is accepted
\* otherwise; "+1 (555) 123-4567" is accepted and "abc-123" is rejected.
C4_Telefono ==
  (op = "construir" /\ tipo \in {"UsuarioBase", "UsuarioUpdate"}
     /\ Len(entrada.telefono) > 0) =>
    LET malo == /\ Len(Resto(entrada.telefono[1])) > 0
                /\ TieneNoDigito(Resto(entrada.telefono[1]))
    IN /\ malo => ("telefono" \in errores /\ excepcion = "ValidationError")
       /\ ~malo => ("telefono" \notin errores /\ excepcion \in {"", "ValidationError"})
       /\ entrada.telefono[1] = TelefonoEjemplo => ~malo
       /\ entrada.telefono[1] = TelefonoMalo => malo

\* C5: a name made only of whitespace is rejected with ValidationError by
\* Usuario, UsuarioBase/UsuarioCreate and UsuarioUpdate, and no record is created.
C5_NombreEnBlanco ==
  (op = "construir" /\ tipo \in {"Usuario", "UsuarioBase", "UsuarioUpdate"}) =>
    LET dado == IF tipo = "UsuarioUpdate" THEN entrada.nombre ELSE Some(entrada.nombre)
    IN (Len(dado) > 0 /\ Len(dado[1]) > 0 /\ SoloEspacios(dado[1])) =>
         /\ "nombre" \in errores
         /\ excepcion = "ValidationError"
         /\ registro = Ninguno

\* C6: for every name that name validation accepts, the stored name is the
\* name stripped and title-cased, and validating the stored name again is
\* accepted and returns the same value.
C6_Normalizacion ==
  (op = "construir" /\ tipo \in {"Usuario", "UsuarioBase"} /\ Existe) =>
    /\ registro.nombre = title(strip(entrada.nombre))
    /\ LET otra == Construir(tipo, [entrada EXCEPT !.nombre = registro.nombre], None)
       IN /\ "nombre" \notin otra.errores
          /\ otra.excepcion = ""
          /\ otra.registro.nombre = registro.nombre

C6_Testigo ==
  /\ op = "construir"
  /\ tipo = "Usuario"
  /\ entrada.nombre = <<"\r", "a", "B">>
  /\ Existe
  /\ registro.nombre = <<"A", "b">>

\* C7: a price <= 0 makes Product construction fail; a price > 0 is accepted
\* and the stored price is the price rounded to 2 decimal places.
C7_Precio ==
  (op = "construir" /\ tipo = "Producto") =>
    /\ entrada.precio.signo <= 0 =>
         ("precio" \in errores /\ excepcion = "ValidationError" /\ registro = Ninguno)
    /\ entrada.precio.signo > 0 =>
         /\ "precio" \notin errores
         /\ errores = {} => (Existe /\ RedondeadoA2(entrada.precio, registro.precio))

C7_Testigo ==
  /\ op = "construir"
  /\ tipo = "Producto"
  /\ entrada.precio = Literal(2675, 1000)
  /\ Existe
  /\ registro.precio = Literal(267, 100)

\* C8: Product construction fails when the category does not equal, case
\* insensitively, one of the five entries of categorias_validas, and stores
\* the lowercase form when it does.
C8_Categoria ==
  (op = "construir" /\ tipo = "Producto") =>
    /\ Len(categorias_validas) = 5
    /\ "categoria" \in errores <=>
         ~\E i \in 1..Len(categorias_validas) :
            IgualSinCaso(entrada.categoria, categorias_validas[i])
    /\ errores = {} =>
         /\ IgualSinCaso(registro.categoria, entrada.categoria)
         /\ \A i \in 1..Len(registro.categoria) : ~EsMayuscula(registro.categoria[i])

C8_Testigo ==
  /\ op = "construir"
  /\ tipo = "Producto"
  /\ entrada.categoria = <<"R","O","P","A">>
  /\ Existe
  /\ registro.categoria = <<"r","o","p","a">>

\* C9: with the port given, construction succeeds exactly when the port is in
\* [1024, 65535] (8080 accepted, 80 and 70000 rejected), with max_conexiones
\* given exactly when it is in [1, 1000]; the defaults 8000 and 100 are inside.
C9_Rangos ==
  (op = "construir" /\ tipo = "ConfiguracionApp") =>
    LET p == entrada.puerto
        m == entrada.max_conexiones
        pOk == Len(p) = 0 \/ (p[1] >= 1024 /\ p[1] <= 65535)
        mOk == Len(m) = 0 \/ (m[1] >= 1 /\ m[1] <= 1000)
    IN /\ "puerto" \in errores <=> ~pOk
       /\ "max_conexiones" \in errores <=> ~mOk
       /\ Len(entrada.base_datos_url) > 0 => (Existe <=> (pOk /\ mOk))
       /\ p = Some(8080) => "puerto" \notin errores
       /\ p \in {Some(80), Some(70000)} => "puerto" \in errores
       /\ Existe =>
            /\ registro.puerto >= 1024 /\ registro.puerto <= 65535
            /\ registro.max_conexiones >= 1 /\ registro.max_conexiones <= 1000
            /\ Len(p) = 0 => registro.puerto = 8000
            /\ Len(m) = 0 => registro.max_conexiones = 100

C9_Testigo ==
  /\ op = "construir"
  /\ tipo = "ConfiguracionApp"
  /\ entrada.puerto = Some(65535)
  /\ entrada.max_conexiones = Some(1)
  /\ Existe
  /\ registro.puerto = 65535

\* C10: to_dict of a persisted User entity succeeds and returns every field
\* the entity declares, each read from a declared field, the timestamps as
\* ISO-8601 strings or null.
C10_ToDict ==
  op = "to_dict" =>
    /\ excepcion = ""
    /\ \A i \in 1..Len(to_dict_lecturas) : to_dict_lecturas[i][2] \in Usuario_columnas
    /\ Cardinality(DOMAIN salida) = Cardinality(Usuario_columnas)

====
